---- MODULE Spec2Model ----
(***************************************************************************)
(* Model of rplugin/python3/aerojump.py: the AerojumpLine matcher/scorer   *)
(* and the Aerojump engine (filter, best-match selection, navigation,      *)
(* highlights, read accessors).                                            *)
(*                                                                         *)
(* Text is a sequence of one-character strings.  Indices are 0-based as in *)
(* the Python code: At(s, i) reads s[i].  A Python attribute that may not  *)
(* exist yet is a sequence of length 0 (missing) or 1 (holding the value). *)
(***************************************************************************)
EXTENDS Integers, Sequences, FiniteSets, TLC

VARIABLES
    lines,               \* self.lines: AerojumpLine objects
    og_cursor_pos,       \* self.og_cursor_pos: <<line, column>>
    og_top_line,         \* self.og_top_line: <<line, column>>
    num_lines,           \* self.num_lines
    filter_string,       \* self.filter_string
    filtered_lines,      \* self.filtered_lines: attribute, list of references into lines
    has_filter_results,  \* self.has_filter_results
    cursor_line_index,   \* self.cursor_line_index
    cursor_match_index,  \* self.cursor_match_index
    highlights,          \* self.highlights: attribute
    init_args,           \* the lines and lin_nums the constructor was called with
    last_op,             \* the method called last
    last_exc             \* the exception it raised, or "none"

vars == <<lines, og_cursor_pos, og_top_line, num_lines, filter_string,
          filtered_lines, has_filter_results, cursor_line_index,
          cursor_match_index, highlights, init_args, last_op, last_exc>>

engine == <<lines, og_cursor_pos, og_top_line, num_lines, filter_string,
            filtered_lines, has_filter_results, cursor_line_index,
            cursor_match_index, highlights>>

----------------------------------------------------------------------------
(* Bounds of the model *)

MaxLines == 2
MaxLen == 4
MaxPattern == 3
MaxQuery == 2
MaxLineNum == 3
MaxHeight == 1
MaxStray == 1

(* Characters of the document and of the query.  The document has a plain  *)
(* lowercase letter, an uppercase letter, and "I", which stands for U+0130, *)
(* the character whose str.lower() is two code points ("i" and U+0307,     *)
(* written ".").  The query is typed in lowercase.                         *)
RawAlphabet == {"a", "B", "I"}
QueryAlphabet == {"a", "b"}

----------------------------------------------------------------------------
(* Python values *)

Missing == <<>>
Holding(v) == <<v>>
Has(attr) == Len(attr) = 1
Get(attr) == attr[1]

At(s, i) == s[i + 1]

InRange(s, i) == -Len(s) <= i /\ i < Len(s)
Subscript(s, i) == IF i >= 0 THEN s[i + 1] ELSE s[Len(s) + i + 1]

Abs(x) == IF x < 0 THEN -x ELSE x

Min(S) == CHOOSE x \in S : \A y \in S : x <= y

RECURSIVE Flatten(_)
Flatten(ss) == IF ss = <<>> THEN <<>> ELSE Head(ss) \o Flatten(Tail(ss))

StrUpTo(A, n) == UNION {[1..k -> A] : k \in 0..n}

(* str.lower() *)
lower_char(c) ==
    CASE c = "I" -> <<"i", ".">>
      [] c = "A" -> <<"a">>
      [] c = "B" -> <<"b">>
      [] OTHER   -> <<c>>

lower(s) == Flatten([k \in 1..Len(s) |-> lower_char(s[k])])

(* score / pat_len: a quotient of two small integers, compared exactly *)
Quot(n, d) == [num |-> n, den |-> d]
QGt(x, y) == x.num * y.den > y.num * x.den
QEq(x, y) == x.num * y.den = y.num * x.den

----------------------------------------------------------------------------
(* class AerojumpLine *)

AerojumpLine(line, num) ==
    [raw |-> line, raw_lower |-> lower(line), num |-> num,
     matches |-> <<>>, scores |-> Missing, filt_index |-> Missing]

RECURSIVE score_run(_, _, _)
score_run(m, i, score) ==
    IF i < Len(m) - 1 /\ At(m, i + 1) - At(m, i) = 1
    THEN score_run(m, i + 1, score + 1)
    ELSE <<i, score>>

RECURSIVE score_walk(_, _, _)
score_walk(m, i, score) ==
    IF i < Len(m)
    THEN LET r == score_run(m, i, score) IN score_walk(m, r[1] + 1, r[2])
    ELSE score

score_matches_seeded_zero(matches, pat_len) ==
    [k \in 1..Len(matches) |-> Quot(score_walk(matches[k], 0, 0), pat_len)]

score_matches(matches, pat_len) ==
    [k \in 1..Len(matches) |-> Quot(score_walk(matches[k], 0, 1), pat_len)]

RECURSIVE match_from_scans_from_line_start(_, _, _, _, _)
match_from_scans_from_line_start(line, matches, pattern, pat_index, word_index) ==
    LET hits == {i \in 0..(Len(line.raw) - 1) :
                    At(line.raw_lower, i) = At(pattern, pat_index)}
    IN  IF hits = {} THEN [ret |-> FALSE, matches |-> matches]
        ELSE LET i == Min(hits)
                 appended == Append(matches, i + 1)
                 next_pat_index == pat_index + 1
                 next_word_index == i + 1
             IN  IF next_pat_index = Len(pattern)
                 THEN [ret |-> TRUE, matches |-> appended]
                 ELSE IF next_word_index < Len(line.raw_lower)
                 THEN match_from_scans_from_line_start(line, appended, pattern,
                                                       next_pat_index, next_word_index)
                 ELSE [ret |-> FALSE, matches |-> appended]

RECURSIVE match_from(_, _, _, _, _)
match_from(line, matches, pattern, pat_index, word_index) ==
    LET hits == {i \in word_index..(Len(line.raw) - 1) :
                    At(line.raw_lower, i) = At(pattern, pat_index)}
    IN  IF hits = {} THEN [ret |-> FALSE, matches |-> matches]
        ELSE LET i == Min(hits)
                 appended == Append(matches, i + 1)
                 next_pat_index == pat_index + 1
                 next_word_index == i + 1
             IN  IF next_pat_index = Len(pattern)
                 THEN [ret |-> TRUE, matches |-> appended]
                 ELSE IF next_word_index < Len(line.raw_lower)
                 THEN match_from(line, appended, pattern, next_pat_index, next_word_index)
                 ELSE [ret |-> FALSE, matches |-> appended]

RECURSIVE filter_loop_keeps_failed_walk(_, _, _, _)
filter_loop_keeps_failed_walk(line, pattern, i, matches) ==
    IF i >= Len(line.raw_lower) THEN matches
    ELSE IF At(line.raw_lower, i) = At(pattern, 0)
    THEN filter_loop_keeps_failed_walk(line, pattern, i + 1,
             Append(matches, match_from(line, <<>>, pattern, 0, i).matches))
    ELSE filter_loop_keeps_failed_walk(line, pattern, i + 1, matches)

RECURSIVE filter_loop(_, _, _, _)
filter_loop(line, pattern, i, matches) ==
    IF i >= Len(line.raw_lower) THEN matches
    ELSE LET walk == match_from(line, <<>>, pattern, 0, i)
         IN  IF At(line.raw_lower, i) = At(pattern, 0) /\ walk.ret
             THEN filter_loop(line, pattern, i + 1, Append(matches, walk.matches))
             ELSE filter_loop(line, pattern, i + 1, matches)

filter_keeps_earlier_matches(line, pattern) ==
    IF pattern = <<>>
    THEN [line EXCEPT !.matches = <<>>]
    ELSE LET found == line.matches \o filter_loop(line, pattern, 0, <<>>)
         IN  [line EXCEPT !.matches = found,
                          !.scores = Holding(score_matches(found, Len(pattern)))]

filter(line, pattern) ==
    IF pattern = <<>>
    THEN [line EXCEPT !.matches = <<>>]
    ELSE LET found == filter_loop(line, pattern, 0, <<>>)
         IN  [line EXCEPT !.matches = found,
                          !.scores = Holding(score_matches(found, Len(pattern)))]

----------------------------------------------------------------------------
(* class Aerojump: private helpers.  ls is the list of line objects and a  *)
(* filtered line is a reference (1-based position) into ls.               *)

RECURSIVE best_match_scan(_, _, _)
best_match_scan(line, i, ret) ==
    IF i >= Len(line.matches) THEN ret
    ELSE IF QGt(At(Get(line.scores), i), At(Get(line.scores), ret))
    THEN best_match_scan(line, i + 1, i)
    ELSE best_match_scan(line, i + 1, ret)

best_match_index_for(line) == best_match_scan(line, 0, 0)

RECURSIVE best_cursor_scan_takes_later_tie(_, _, _, _, _)
best_cursor_scan_takes_later_tie(ls, cands, k, cursor_line, best) ==
    IF k > Len(cands) THEN best
    ELSE LET l == ls[cands[k]]
             hyp_s_index == best_match_index_for(l)
             hyp_score == At(Get(l.scores), hyp_s_index)
             line == ls[best.line]
         IN  IF \/ QGt(hyp_score, best.score)
                \/ /\ QEq(hyp_score, best.score)
                   /\ Abs(cursor_line - l.num) <= Abs(cursor_line - line.num)
             THEN best_cursor_scan_takes_later_tie(ls, cands, k + 1, cursor_line,
                      [line |-> cands[k], s_index |-> hyp_s_index, score |-> hyp_score])
             ELSE best_cursor_scan_takes_later_tie(ls, cands, k + 1, cursor_line, best)

RECURSIVE best_cursor_scan(_, _, _, _, _)
best_cursor_scan(ls, cands, k, cursor_line, best) ==
    IF k > Len(cands) THEN best
    ELSE LET l == ls[cands[k]]
             hyp_s_index == best_match_index_for(l)
             hyp_score == At(Get(l.scores), hyp_s_index)
             line == ls[best.line]
         IN  IF \/ QGt(hyp_score, best.score)
                \/ /\ QEq(hyp_score, best.score)
                   /\ Abs(cursor_line - l.num) < Abs(cursor_line - line.num)
             THEN best_cursor_scan(ls, cands, k + 1, cursor_line,
                      [line |-> cands[k], s_index |-> hyp_s_index, score |-> hyp_score])
             ELSE best_cursor_scan(ls, cands, k + 1, cursor_line, best)

best_cursor_in(ls, cands, cursor_line) ==
    LET line == ls[cands[1]]
        s_index == best_match_index_for(line)
        score == At(Get(line.scores), s_index)
        best == best_cursor_scan(ls, cands, 1, cursor_line,
                    [line |-> cands[1], s_index |-> s_index, score |-> score])
    IN  <<Get(ls[best.line].filt_index), best.s_index>>

visible_matches_exclusive_end(ls, filtered, top, height) ==
    LET visible_start == top
        visible_end == visible_start + height
        Visible(r) == ls[r].num >= visible_start /\ ls[r].num < visible_end
    IN  SelectSeq(filtered, Visible)

visible_matches(ls, filtered, top, height) ==
    LET visible_start == top
        visible_end == visible_start + height
        Visible(r) == ls[r].num >= visible_start /\ ls[r].num <= visible_end
    IN  SelectSeq(filtered, Visible)

set_cursor_to_best_match(ls, filtered, top, height, cursor_line) ==
    LET visible == visible_matches(ls, filtered, top, height)
    IN  IF visible # <<>>
        THEN best_cursor_in(ls, visible, cursor_line)
        ELSE best_cursor_in(ls, filtered, cursor_line)

match_spans(kind, num, m) == [k \in 1..Len(m) |-> <<kind, num - 1, m[k] - 1, m[k]>>]

line_spans(l) ==
    Flatten([k \in 1..Len(l.matches) |-> match_spans("SearchResult", l.num, l.matches[k])])

update_highlights_cursor_spans_first(ls, filtered, line_index, match_index) ==
    LET result_spans == Flatten([k \in 1..Len(filtered) |-> line_spans(ls[filtered[k]])])
    IN  IF ~InRange(filtered, line_index)
        THEN [exc |-> "IndexError", val |-> <<>>]
        ELSE LET l == ls[Subscript(filtered, line_index)]
             IN  IF ~InRange(l.matches, match_index)
                 THEN [exc |-> "IndexError", val |-> <<>>]
                 ELSE [exc |-> "none",
                       val |-> match_spans("SearchHighlight", l.num,
                                           Subscript(l.matches, match_index))
                               \o result_spans]

(* Returns [exc, val]: the exception raised, or "none" and the list *)
update_highlights(ls, filtered, line_index, match_index) ==
    LET result_spans == Flatten([k \in 1..Len(filtered) |-> line_spans(ls[filtered[k]])])
    IN  IF ~InRange(filtered, line_index)
        THEN [exc |-> "IndexError", val |-> <<>>]
        ELSE LET l == ls[Subscript(filtered, line_index)]
             IN  IF ~InRange(l.matches, match_index)
                 THEN [exc |-> "IndexError", val |-> <<>>]
                 ELSE [exc |-> "none",
                       val |-> result_spans \o
                               match_spans("SearchHighlight", l.num,
                                           Subscript(l.matches, match_index))]

RECURSIVE get_filtered_lines_indexes_by_document(_, _, _, _)
get_filtered_lines_indexes_by_document(filter_str, ls, k, filtered) ==
    IF k > Len(ls) THEN [lines |-> ls, filtered |-> filtered]
    ELSE LET l == filter(ls[k], filter_str)
         IN  IF l.matches # <<>>
             THEN get_filtered_lines_indexes_by_document(filter_str,
                      [ls EXCEPT ![k] = [l EXCEPT !.filt_index = Holding(k - 1)]],
                      k + 1, Append(filtered, k))
             ELSE get_filtered_lines_indexes_by_document(filter_str,
                      [ls EXCEPT ![k] = l], k + 1, filtered)

RECURSIVE get_filtered_lines(_, _, _, _)
get_filtered_lines(filter_str, ls, k, filtered) ==
    IF k > Len(ls) THEN [lines |-> ls, filtered |-> filtered]
    ELSE LET l == filter(ls[k], filter_str)
         IN  IF l.matches # <<>>
             THEN get_filtered_lines(filter_str,
                      [ls EXCEPT ![k] = [l EXCEPT !.filt_index = Holding(Len(filtered))]],
                      k + 1, Append(filtered, k))
             ELSE get_filtered_lines(filter_str, [ls EXCEPT ![k] = l], k + 1, filtered)

----------------------------------------------------------------------------
(* The cursor part of the object, as a method leaves it: the two indices,  *)
(* the highlights attribute and the exception that ended the call.         *)

Cur(li, mi, hl, exc) == [line_index |-> li, match_index |-> mi, hl |-> hl, exc |-> exc]

(* self.highlights = self.__update_highlights(self.filtered_lines, li, mi) *)
store_highlights(li, mi, hl) ==
    IF ~Has(filtered_lines) THEN Cur(li, mi, hl, "AttributeError")
    ELSE LET r == update_highlights(lines, Get(filtered_lines), li, mi)
         IN  IF r.exc = "none" THEN Cur(li, mi, Holding(r.val), "none")
             ELSE Cur(li, mi, hl, r.exc)

line_up_unclamped(li, mi, hl) ==
    LET dec == li - 1
    IN  store_highlights(dec, 0, hl)

line_up(li, mi, hl) ==
    LET dec == li - 1
        clamped == IF dec < 0 THEN 0 ELSE dec
    IN  store_highlights(clamped, 0, hl)

line_down_keeps_match_index(li, mi, hl) ==
    LET inc == li + 1
    IN  IF ~Has(filtered_lines) THEN Cur(inc, mi, hl, "AttributeError")
        ELSE LET clamped == IF inc >= Len(Get(filtered_lines))
                            THEN Len(Get(filtered_lines)) - 1 ELSE inc
             IN  store_highlights(clamped, mi, hl)

line_down(li, mi, hl) ==
    LET inc == li + 1
    IN  IF ~Has(filtered_lines) THEN Cur(inc, mi, hl, "AttributeError")
        ELSE LET clamped == IF inc >= Len(Get(filtered_lines))
                            THEN Len(Get(filtered_lines)) - 1 ELSE inc
             IN  store_highlights(clamped, 0, hl)

match_next_stops_at_last_match(li, mi, hl) ==
    LET inc == mi + 1
    IN  IF ~Has(filtered_lines) THEN Cur(li, inc, hl, "AttributeError")
        ELSE IF ~InRange(Get(filtered_lines), li) THEN Cur(li, inc, hl, "IndexError")
        ELSE IF inc >= Len(lines[Subscript(Get(filtered_lines), li)].matches)
        THEN IF li + 1 >= Len(Get(filtered_lines))
             THEN Cur(li, mi, hl, "none")
             ELSE line_down(li, inc, hl)
        ELSE store_highlights(li, inc, hl)

match_next_skips_last_match(li, mi, hl) ==
    LET inc == mi + 1
    IN  IF ~Has(filtered_lines) THEN Cur(li, inc, hl, "AttributeError")
        ELSE IF ~InRange(Get(filtered_lines), li) THEN Cur(li, inc, hl, "IndexError")
        ELSE IF inc >= Len(lines[Subscript(Get(filtered_lines), li)].matches) - 1
        THEN line_down(li, inc, hl)
        ELSE store_highlights(li, inc, hl)

match_next(li, mi, hl) ==
    LET inc == mi + 1
    IN  IF ~Has(filtered_lines) THEN Cur(li, inc, hl, "AttributeError")
        ELSE IF ~InRange(Get(filtered_lines), li) THEN Cur(li, inc, hl, "IndexError")
        ELSE IF inc >= Len(lines[Subscript(Get(filtered_lines), li)].matches)
        THEN line_down(li, inc, hl)
        ELSE store_highlights(li, inc, hl)

match_prev_lands_past_end(li, mi, hl) ==
    LET dec == mi - 1
    IN  IF dec < 0
        THEN LET up == line_up(li, dec, hl)
             IN  IF up.exc # "none" THEN up
                 ELSE Cur(up.line_index,
                          Len(lines[Subscript(Get(filtered_lines), up.line_index)].matches),
                          up.hl, "none")
        ELSE store_highlights(li, dec, hl)

match_prev_lands_on_first_match(li, mi, hl) ==
    LET dec == mi - 1
    IN  IF dec < 0
        THEN line_up(li, dec, hl)
        ELSE store_highlights(li, dec, hl)

match_prev(li, mi, hl) ==
    LET dec == mi - 1
    IN  IF dec < 0
        THEN LET up == line_up(li, dec, hl)
             IN  IF up.exc # "none" THEN up
                 ELSE Cur(up.line_index,
                          Len(lines[Subscript(Get(filtered_lines), up.line_index)].matches) - 1,
                          up.hl, "none")
        ELSE store_highlights(li, dec, hl)

(* get_cursor(): [exc, val] *)
cursor_value ==
    IF ~has_filter_results THEN [exc |-> "none", val |-> og_cursor_pos]
    ELSE IF ~Has(filtered_lines) THEN [exc |-> "AttributeError", val |-> <<>>]
    ELSE IF ~InRange(Get(filtered_lines), cursor_line_index)
    THEN [exc |-> "IndexError", val |-> <<>>]
    ELSE LET l == lines[Subscript(Get(filtered_lines), cursor_line_index)]
         IN  IF ~InRange(l.matches, cursor_match_index)
             THEN [exc |-> "IndexError", val |-> <<>>]
             ELSE [exc |-> "none",
                   val |-> <<l.num, At(Subscript(l.matches, cursor_match_index), 0) - 1>>]

(* draw(): [exc, val] *)
draw_value ==
    LET shown == [k \in 1..Len(lines) |-> lines[k].raw]
    IN  IF ~Has(highlights) THEN [exc |-> "AttributeError", val |-> <<>>]
        ELSE IF cursor_value.exc # "none" THEN [exc |-> cursor_value.exc, val |-> <<>>]
        ELSE [exc |-> "none",
              val |-> [lines |-> shown, highlights |-> Get(highlights),
                       cursor_position |-> cursor_value.val]]

(* get_highlights(): [exc, val] *)
highlights_value ==
    IF ~Has(highlights) THEN [exc |-> "AttributeError", val |-> <<>>]
    ELSE [exc |-> "none", val |-> Get(highlights)]

----------------------------------------------------------------------------
(* Construction.  The loop over range(len(lines)) reads lin_nums[i]: with   *)
(* fewer line numbers than lines it raises IndexError and no object is     *)
(* returned (the variables then hold the object as the raise left it, and  *)
(* no method is ever called on it); surplus line numbers are never read.   *)

construct(ls, lin_nums, cursor_pos, top_line, height) ==
    /\ init_args = [lines |-> ls, lin_nums |-> lin_nums]
    /\ og_top_line = top_line
    /\ og_cursor_pos = cursor_pos
    /\ num_lines = height
    /\ filter_string = <<>>
    /\ lines = [i \in 1..(IF Len(lin_nums) < Len(ls) THEN Len(lin_nums) ELSE Len(ls)) |->
                    AerojumpLine(ls[i], lin_nums[i])]
    /\ cursor_line_index = 0
    /\ cursor_match_index = 0
    /\ has_filter_results = FALSE
    /\ filtered_lines = Missing
    /\ highlights = Missing
    /\ last_op = "__init__"
    /\ last_exc = IF Len(lin_nums) < Len(ls) THEN "IndexError" ELSE "none"

Queries == StrUpTo(QueryAlphabet, MaxQuery)

(* Buffers of the engine sessions: lines with one match, with several     *)
(* matches of different scores, and with none                              *)
Texts == {<<"a", "a", "B">>, <<"a", "B", "a">>, <<"B">>}

Buffers == UNION {[1..n -> Texts] : n \in 1..MaxLines}

(* Where the editor stood when the plugin was summoned: the spacing of the *)
(* line numbers, the cursor line, the top line and the window height.      *)
(* Both lines visible and the cursor between them; only the second line    *)
(* visible; no line visible.                                               *)
Summons ==
    {[step |-> 2, cursor |-> 2, top |-> 1, height |-> 2],
     [step |-> 1, cursor |-> 2, top |-> 2, height |-> 0],
     [step |-> 1, cursor |-> 1, top |-> 3, height |-> 0]}

Init ==
    \E ls \in Buffers, at \in Summons :
        construct(ls, [i \in 1..Len(ls) |-> 1 + (i - 1) * at.step],
                  <<at.cursor, 7>>, <<at.top, 0>>, at.height)

(* One line of any text: the matcher and the scorer on every input *)
InitLine ==
    \E text \in StrUpTo(RawAlphabet, MaxLen) :
        construct(<<text>>, <<1>>, <<1, 7>>, <<1, 0>>, 1)

(* Two lines with any increasing line numbers, cursor line and viewport:   *)
(* the selector on every geometry                                          *)
InitSelect ==
    \E ls \in [1..2 -> Texts] :
        \E lin_nums \in {f \in [1..2 -> 1..MaxLineNum] : f[1] < f[2]} :
            \E cursor_line \in 1..MaxLineNum, top \in 1..MaxLineNum, height \in 0..MaxHeight :
                construct(ls, lin_nums, <<cursor_line, 7>>, <<top, 0>>, height)

(* The buffer of the worked example: "foobar", "barfoo", "fbo", numbered   *)
(* from 1, the window showing all of it, the cursor on any of its lines    *)
ExampleLines ==
    <<<<"f", "o", "o", "b", "a", "r">>, <<"b", "a", "r", "f", "o", "o">>, <<"f", "b", "o">>>>

ExampleQuery == <<"f", "b", "o">>

(* What can be typed on the way to the query: its letters, up to its length *)
ExampleQueries == StrUpTo({ExampleQuery[k] : k \in 1..Len(ExampleQuery)}, Len(ExampleQuery))

InitExample ==
    \E cursor_line \in 1..Len(ExampleLines) :
        construct(ExampleLines, [i \in 1..Len(ExampleLines) |-> i],
                  <<cursor_line, 7>>, <<1, 0>>, Len(ExampleLines))

(* Construction by a caller that numbers the lines from 1 but may pass     *)
(* fewer or more numbers than lines                                        *)
LineNumbers == {[i \in 1..n |-> i] : n \in 0..(MaxLines + 1)}

InitConstruct ==
    \E ls \in Buffers, lin_nums \in LineNumbers :
        construct(ls, lin_nums, <<1, 7>>, <<1, 0>>, Len(ls))

(* The constructor returned an object *)
Constructed == ~(last_op = "__init__" /\ last_exc # "none")

----------------------------------------------------------------------------
(* Public methods, one action each *)

Called(op, exc) == last_op' = op /\ last_exc' = exc /\ UNCHANGED init_args

Moved_clears_matches(op, c) ==
    /\ cursor_line_index' = c.line_index
    /\ cursor_match_index' = c.match_index
    /\ highlights' = c.hl
    /\ Called(op, c.exc)
    /\ lines' = [k \in 1..Len(lines) |-> [lines[k] EXCEPT !.matches = <<>>]]
    /\ UNCHANGED <<og_cursor_pos, og_top_line, num_lines, filter_string,
                   filtered_lines, has_filter_results>>

Moved(op, c) ==
    /\ cursor_line_index' = c.line_index
    /\ cursor_match_index' = c.match_index
    /\ highlights' = c.hl
    /\ Called(op, c.exc)
    /\ UNCHANGED <<lines, og_cursor_pos, og_top_line, num_lines, filter_string,
                   filtered_lines, has_filter_results>>

(* Each intermediate value is bound once, in the order the code computes it *)
apply_filter(filter_str) ==
    \E got \in {get_filtered_lines(filter_str, lines, 1, <<>>)} :
        /\ filter_string' = filter_str
        /\ lines' = got.lines
        /\ filtered_lines' = Holding(got.filtered)
        /\ has_filter_results' = (Len(got.filtered) > 0)
        /\ IF Len(got.filtered) > 0
           THEN \E cursor_indices \in {set_cursor_to_best_match(got.lines, got.filtered,
                                           At(og_top_line, 0), num_lines, At(og_cursor_pos, 0))} :
                \E hl \in {update_highlights(got.lines, got.filtered,
                                              cursor_indices[1], cursor_indices[2])} :
                    /\ cursor_line_index' = cursor_indices[1]
                    /\ cursor_match_index' = cursor_indices[2]
                    /\ highlights' = IF hl.exc = "none" THEN Holding(hl.val) ELSE highlights
                    /\ Called("apply_filter", hl.exc)
           ELSE /\ UNCHANGED <<cursor_line_index, cursor_match_index, highlights>>
                /\ Called("apply_filter", "none")
        /\ UNCHANGED <<og_cursor_pos, og_top_line, num_lines>>

cursor_line_up ==
    \E c \in {line_up(cursor_line_index, cursor_match_index, highlights)} :
        Moved("cursor_line_up", c)

cursor_line_down ==
    /\ Has(filtered_lines) \/ cursor_line_index < MaxStray
    /\ \E c \in {line_down(cursor_line_index, cursor_match_index, highlights)} :
           Moved("cursor_line_down", c)

cursor_match_next ==
    /\ has_filter_results \/ cursor_match_index < MaxStray
    /\ \E c \in {match_next(cursor_line_index, cursor_match_index, highlights)} :
           Moved("cursor_match_next", c)

cursor_match_prev ==
    \E c \in {match_prev(cursor_line_index, cursor_match_index, highlights)} :
        Moved("cursor_match_prev", c)

draw ==
    /\ Called("draw", draw_value.exc)
    /\ UNCHANGED engine

get_cursor ==
    /\ Called("get_cursor", cursor_value.exc)
    /\ UNCHANGED engine

get_highlights ==
    /\ Called("get_highlights", highlights_value.exc)
    /\ UNCHANGED engine

Next ==
    \/ \E filter_str \in Queries : apply_filter(filter_str)
    \/ cursor_line_up
    \/ cursor_line_down
    \/ cursor_match_next
    \/ cursor_match_prev
    \/ draw
    \/ get_cursor
    \/ get_highlights

Spec == Init /\ [][Next]_vars

NextFilter == \E filter_str \in Queries : apply_filter(filter_str)

NextLine == \E pattern \in StrUpTo(QueryAlphabet, MaxPattern) : apply_filter(pattern)

SpecLine == InitLine /\ [][NextLine]_vars

SpecSelect == InitSelect /\ [][NextFilter]_vars

NextExample == \E filter_str \in ExampleQueries : apply_filter(filter_str)

SpecExample == InitExample /\ [][NextExample]_vars

NextConstruct == Constructed /\ NextFilter

SpecConstruct == InitConstruct /\ [][NextConstruct]_vars

----------------------------------------------------------------------------
(* Vocabulary of the properties *)

Navigation == {"cursor_line_up", "cursor_line_down", "cursor_match_next", "cursor_match_prev"}

Filtered == IF Has(filtered_lines) THEN {Get(filtered_lines)[j] : j \in 1..Len(Get(filtered_lines))}
            ELSE {}

(* q is an ordered subsequence of text *)
IsSubsequence(q, text) ==
    \E f \in [1..Len(q) -> 1..Len(text)] :
        /\ \A k \in 1..(Len(q) - 1) : f[k] < f[k + 1]
        /\ \A k \in 1..Len(q) : text[f[k]] = q[k]

StrictlyIncreasing(m) == \A i \in 1..(Len(m) - 1) : m[i] < m[i + 1]

Consecutive(m) == \A i \in 1..(Len(m) - 1) : m[i + 1] = m[i] + 1

AdjacentPairs(m) == Cardinality({i \in 1..(Len(m) - 1) : m[i + 1] - m[i] = 1})

(* The line the cursor is on, when both indices are in range *)
CursorInRange ==
    /\ Has(filtered_lines)
    /\ cursor_line_index \in 0..(Len(Get(filtered_lines)) - 1)
    /\ cursor_match_index \in
           0..(Len(lines[Get(filtered_lines)[cursor_line_index + 1]].matches) - 1)

CursorLine == lines[Get(filtered_lines)[cursor_line_index + 1]]

CursorMatch == CursorLine.matches[cursor_match_index + 1]

SpansOfKind(hl, kind) == SelectSeq(hl, LAMBDA h : h[1] = kind)

(* Selection, stated from the scores alone *)
ScoreAt(k, j) == Get(lines[k].scores)[j]

IsTopMatch(k, j) ==
    /\ j \in 1..Len(lines[k].matches)
    /\ \A j2 \in 1..Len(lines[k].matches) : ~QGt(ScoreAt(k, j2), ScoreAt(k, j))

TopMatch(k) == Min({j \in 1..Len(lines[k].matches) : IsTopMatch(k, j)})

TopScore(k) == ScoreAt(k, TopMatch(k))

Distance(k) == Abs(lines[k].num - og_cursor_pos[1])

InViewport(k) ==
    /\ lines[k].num >= og_top_line[1]
    /\ lines[k].num <= og_top_line[1] + num_lines

Candidates ==
    IF \E k \in Filtered : InViewport(k) THEN {k \in Filtered : InViewport(k)} ELSE Filtered

Preferred(c, d) ==
    \/ QGt(TopScore(c), TopScore(d))
    \/ /\ QEq(TopScore(c), TopScore(d))
       /\ \/ Distance(c) < Distance(d)
          \/ Distance(c) = Distance(d) /\ c <= d

----------------------------------------------------------------------------
(* C1: after apply_filter(q) with a non-empty q, a line is a filtered line *)
(* exactly when q is an ordered subsequence of the line's lowercased text. *)
C1_LineFilteredIffSubsequence ==
    (last_op = "apply_filter" /\ filter_string # <<>>) =>
        \A k \in 1..Len(lines) :
            (k \in Filtered) <=> IsSubsequence(filter_string, lines[k].raw_lower)

(* C2: every recorded match has one strictly increasing position per query *)
(* character, each position holding that character of the lowercased line; *)
(* a walk that failed is not recorded.                                     *)
C2_MatchesAreSound ==
    \A k \in 1..Len(lines) :
        \A j \in 1..Len(lines[k].matches) :
            LET m == lines[k].matches[j]
            IN  /\ Len(m) = Len(filter_string)
                /\ StrictlyIncreasing(m)
                /\ \A i \in 1..Len(m) :
                       /\ m[i] \in 1..Len(lines[k].raw_lower)
                       /\ lines[k].raw_lower[m[i]] = filter_string[i]

(* A line that has a match with a gap and a start character whose walk failed *)
C2_Witness ==
    /\ last_op = "apply_filter"
    /\ \E k \in 1..Len(lines) :
           /\ \E j \in 1..Len(lines[k].matches) : ~Consecutive(lines[k].matches[j])
           /\ \E i \in 1..Len(lines[k].raw) :
                  /\ lines[k].raw_lower[i] = filter_string[1]
                  /\ \A j \in 1..Len(lines[k].matches) : lines[k].matches[j][1] # i

(* C3: while there are filtered lines, both cursor indices are in range,   *)
(* and cursor_match_next and cursor_match_prev do not fail.                *)
C3_CursorIndicesInRange ==
    (Has(filtered_lines) /\ Get(filtered_lines) # <<>>) =>
        /\ cursor_line_index >= 0
        /\ cursor_line_index < Len(Get(filtered_lines))
        /\ cursor_match_index >= 0
        /\ cursor_match_index <
               Len(lines[Get(filtered_lines)[cursor_line_index + 1]].matches)
        /\ last_op \in {"cursor_match_next", "cursor_match_prev"} => last_exc = "none"

(* cursor_match_prev has crossed to the last match of the previous line *)
C3_Witness ==
    /\ last_op = "cursor_match_prev"
    /\ Has(filtered_lines)
    /\ Len(Get(filtered_lines)) = 2
    /\ cursor_line_index = 0
    /\ cursor_match_index = 1

(* C4: after a navigation command on a non-empty filtered set the          *)
(* SearchHighlight entries are the positions of the match under the cursor. *)
C4_CursorHighlightIsCursorMatch ==
    (last_op \in Navigation /\ has_filter_results /\ CursorInRange) =>
        /\ Has(highlights)
        /\ SpansOfKind(Get(highlights), "SearchHighlight") =
               match_spans("SearchHighlight", CursorLine.num, CursorMatch)

(* C5: after apply_filter no highlight of an earlier query is readable:    *)
(* every stored highlight is a position of a match of a line filtered by   *)
(* this call.                                                              *)
C5_NoHighlightOfEarlierQuery ==
    (last_op = "apply_filter" /\ Has(highlights)) =>
        \A n \in 1..Len(Get(highlights)) :
            LET h == Get(highlights)[n]
            IN  \E k \in Filtered :
                    /\ lines[k].num - 1 = h[2]
                    /\ \E j \in 1..Len(lines[k].matches) :
                           \E i \in 1..Len(lines[k].matches[j]) :
                               lines[k].matches[j][i] = h[4]

(* C6: after apply_filter("") there is no filtered line and draw() returns *)
(* the original lines in order with the original cursor position.          *)
C6_EmptyQueryDrawsOriginal ==
    (last_op = "apply_filter" /\ filter_string = <<>>) =>
        /\ Get(filtered_lines) = <<>>
        /\ draw_value.exc = "none"
        /\ draw_value.val.lines = [k \in 1..Len(lines) |-> lines[k].raw]
        /\ draw_value.val.cursor_position = og_cursor_pos

(* C7: after apply_filter with a non-empty query that matches no line,     *)
(* there is no filtered line and draw(), get_highlights() and get_cursor() *)
(* return without failing.                                                 *)
C7_NoMatchIsNotAnError ==
    (last_op = "apply_filter" /\ filter_string # <<>> /\ ~has_filter_results) =>
        /\ Get(filtered_lines) = <<>>
        /\ draw_value.exc = "none"
        /\ highlights_value.exc = "none"
        /\ cursor_value.exc = "none"

(* C8: after an apply_filter that yields filtered lines the cursor is on   *)
(* the candidate line of highest best-match score, then smallest distance  *)
(* to the original cursor line, then first in document order; the line     *)
(* index counts in the whole filtered sequence and the match index is the  *)
(* lowest among that line's highest-scoring matches.                       *)
C8_CursorOnSelectedMatch ==
    (last_op = "apply_filter" /\ has_filter_results) =>
        /\ CursorInRange
        /\ Get(filtered_lines)[cursor_line_index + 1] \in Candidates
        /\ \A d \in Candidates : Preferred(Get(filtered_lines)[cursor_line_index + 1], d)
        /\ cursor_match_index + 1 = TopMatch(Get(filtered_lines)[cursor_line_index + 1])

(* Two candidates of equal score at equal distance, the second match of    *)
(* the first one being its best                                            *)
C8_Witness ==
    /\ last_op = "apply_filter"
    /\ has_filter_results
    /\ cursor_line_index = 0
    /\ cursor_match_index = 1
    /\ \E d \in Candidates :
           /\ d # Get(filtered_lines)[1]
           /\ QEq(TopScore(d), TopScore(Get(filtered_lines)[1]))
           /\ Distance(d) = Distance(Get(filtered_lines)[1])

(* C9: the cursor is placed among the filtered lines whose number lies in  *)
(* [top, top + num_lines] whenever there is one, even if a line outside    *)
(* scores higher, and among all filtered lines otherwise.                  *)
C9_ViewportLinesFirst ==
    (last_op = "apply_filter" /\ has_filter_results) =>
        LET chosen == Get(filtered_lines)[cursor_line_index + 1]
        IN  IF \E k \in Filtered : InViewport(k)
            THEN /\ InViewport(chosen)
                 /\ \A k \in Filtered : InViewport(k) => ~QGt(TopScore(k), TopScore(chosen))
            ELSE \A k \in Filtered : ~QGt(TopScore(k), TopScore(chosen))

(* The cursor is on a line inside the viewport while a line outside it     *)
(* scores strictly higher                                                   *)
C9_Witness ==
    /\ last_op = "apply_filter"
    /\ has_filter_results
    /\ InViewport(Get(filtered_lines)[cursor_line_index + 1])
    /\ \E k \in Filtered :
           /\ ~InViewport(k)
           /\ QGt(TopScore(k), TopScore(Get(filtered_lines)[cursor_line_index + 1]))

(* C10: the score of a match is (1 + number of adjacent position pairs one *)
(* apart) / len(query), so it lies in (0, 1] and is 1 exactly when the     *)
(* positions are consecutive; scores holds one entry per match, in order.  *)
C10_ScoreIsContiguity ==
    \A k \in 1..Len(lines) :
        /\ lines[k].matches # <<>> => Has(lines[k].scores)
        /\ filter_string # <<>> => Len(Get(lines[k].scores)) = Len(lines[k].matches)
        /\ \A j \in 1..Len(lines[k].matches) :
               LET m == lines[k].matches[j]
                   score == Get(lines[k].scores)[j]
               IN  /\ score = Quot(1 + AdjacentPairs(m), Len(filter_string))
                   /\ 0 < score.num
                   /\ score.num <= score.den
                   /\ QEq(score, Quot(1, 1)) <=> Consecutive(m)

(* A three-character match with one adjacent pair and one gap *)
C10_Witness ==
    \E k \in 1..Len(lines) :
        \E j \in 1..Len(lines[k].matches) :
            /\ Len(lines[k].matches[j]) = 3
            /\ Get(lines[k].scores)[j] = Quot(2, 3)

(* C11: filtered_lines lists exactly the lines that have a match, in the   *)
(* order of the document and, the construction line numbers increasing, in *)
(* strictly increasing line number; the filt_index of each filtered line   *)
(* is its 0-based position in filtered_lines.                              *)
C11_FilteredInDocumentOrder ==
    Has(filtered_lines) =>
        LET fl == Get(filtered_lines)
        IN  /\ \A k \in 1..Len(lines) : (k \in Filtered) <=> (lines[k].matches # <<>>)
            /\ \A j \in 1..(Len(fl) - 1) :
                   /\ fl[j] < fl[j + 1]
                   /\ lines[fl[j]].num < lines[fl[j + 1]].num
            /\ \A j \in 1..Len(fl) : lines[fl[j]].filt_index = Holding(j - 1)

(* The second line of the document is the only filtered line, at position  *)
(* 0, after a pass in which it was at position 1 behind the first line     *)
C11_Witness ==
    /\ last_op = "apply_filter"
    /\ Has(filtered_lines)
    /\ Get(filtered_lines) = <<2>>
    /\ lines[2].filt_index = Holding(0)
    /\ lines[1].filt_index = Holding(0)

(* Operators of C12: n calls of cursor_line_up, of cursor_line_down, from  *)
(* the cursor c                                                            *)
RECURSIVE LineUpTimes(_, _)
LineUpTimes(n, c) ==
    IF n = 0 THEN c
    ELSE LineUpTimes(n - 1, line_up(c.line_index, c.match_index, c.hl))

RECURSIVE LineDownTimes(_, _)
LineDownTimes(n, c) ==
    IF n = 0 THEN c
    ELSE LineDownTimes(n - 1, line_down(c.line_index, c.match_index, c.hl))

(* C12: over N filtered lines, from any cursor in range, N calls of        *)
(* cursor_line_up end on filtered line 0 and N calls of cursor_line_down   *)
(* end on filtered line N-1; one call moves the line index by at most one, *)
(* keeps it in [0, N-1] and resets the match index to 0.                   *)
C12_LineStepsClampAtEnds ==
    (has_filter_results /\ CursorInRange) =>
        LET N == Len(Get(filtered_lines))
            here == Cur(cursor_line_index, cursor_match_index, highlights, "none")
            up == line_up(cursor_line_index, cursor_match_index, highlights)
            down == line_down(cursor_line_index, cursor_match_index, highlights)
        IN  /\ LineUpTimes(N, here).line_index = 0
            /\ LineDownTimes(N, here).line_index = N - 1
            /\ up.exc = "none" /\ down.exc = "none"
            /\ up.line_index \in {cursor_line_index - 1, cursor_line_index}
            /\ down.line_index \in {cursor_line_index, cursor_line_index + 1}
            /\ up.line_index \in 0..(N - 1) /\ down.line_index \in 0..(N - 1)
            /\ up.match_index = 0 /\ down.match_index = 0
            /\ last_op \in {"cursor_line_up", "cursor_line_down"} =>
                   last_exc = "none" /\ cursor_match_index = 0

(* cursor_line_down has brought the cursor from a later match of the first *)
(* of two filtered lines to the last filtered line                          *)
C12_Witness ==
    /\ last_op = "cursor_line_down"
    /\ has_filter_results
    /\ Len(Get(filtered_lines)) = 2
    /\ cursor_line_index = 1
    /\ cursor_match_index = 0
    /\ Len(lines[Get(filtered_lines)[1]].matches) = 2

(* The cursor is in range on the last match of its line; on the last       *)
(* filtered line                                                            *)
OnLastMatch == has_filter_results /\ CursorInRange
                   /\ cursor_match_index = Len(CursorLine.matches) - 1

OnLastLine == cursor_line_index = Len(Get(filtered_lines)) - 1

(* C13 as stated: with the cursor on the last match of the last filtered   *)
(* line, cursor_match_next changes neither index nor the cursor that       *)
(* get_cursor() returns.                                                   *)
C13_MatchNextAtEndIsNoOp ==
    [][(OnLastMatch /\ OnLastLine /\ last_op' = "cursor_match_next") =>
           /\ cursor_line_index' = cursor_line_index
           /\ cursor_match_index' = cursor_match_index
           /\ cursor_value' = cursor_value]_vars

(* C13 as amended: with the cursor on the last match of the last filtered  *)
(* line, cursor_match_next keeps the line index and sets the match index   *)
(* to 0, so that get_cursor() returns the first match of that line; the    *)
(* call changes nothing only when the line has a single match.             *)
C13_MatchNextAtEndRestartsLine ==
    [][(OnLastMatch /\ OnLastLine /\ last_op' = "cursor_match_next") =>
           /\ last_exc' = "none"
           /\ cursor_line_index' = cursor_line_index
           /\ cursor_match_index' = 0
           /\ cursor_value'.val = <<CursorLine.num, CursorLine.matches[1][1] - 1>>
           /\ (Len(CursorLine.matches) = 1) <=>
                  (cursor_match_index' = cursor_match_index /\ cursor_value' = cursor_value)]_vars

(* cursor_match_next has been called with the cursor on the last of two    *)
(* filtered lines, a line of two matches, and the cursor is on its first   *)
C13_Witness ==
    /\ last_op = "cursor_match_next"
    /\ has_filter_results
    /\ Len(Get(filtered_lines)) = 2
    /\ cursor_line_index = 1
    /\ cursor_match_index = 0
    /\ Len(lines[Get(filtered_lines)[2]].matches) = 2

(* C14: when cursor_match_next overflows the matches of the current line,  *)
(* the cursor lands on match 0 of the next filtered line, or, on the last  *)
(* (or only) filtered line, on match 0 of the same line, without an error. *)
C14_MatchNextOverflow ==
    [][(OnLastMatch /\ last_op' = "cursor_match_next") =>
           /\ last_exc' = "none"
           /\ cursor_match_index' = 0
           /\ cursor_line_index' = IF OnLastLine THEN cursor_line_index
                                    ELSE cursor_line_index + 1]_vars

(* The only filtered line has two matches and cursor_match_next has left   *)
(* the cursor on the first one                                             *)
C14_Witness ==
    /\ last_op = "cursor_match_next"
    /\ has_filter_results
    /\ Len(Get(filtered_lines)) = 1
    /\ Len(lines[Get(filtered_lines)[1]].matches) = 2
    /\ cursor_line_index = 0
    /\ cursor_match_index = 0

(* C15: cursor_match_prev decrements a match index above 0; at 0 it moves  *)
(* to the previous filtered line, or stays on filtered line 0, and sets    *)
(* the match index to the last match of the line it is then on.            *)
C15_MatchPrevUnderflow ==
    [][(has_filter_results /\ CursorInRange /\ last_op' = "cursor_match_prev") =>
           /\ last_exc' = "none"
           /\ IF cursor_match_index > 0
              THEN /\ cursor_line_index' = cursor_line_index
                   /\ cursor_match_index' = cursor_match_index - 1
              ELSE /\ cursor_line_index' = IF cursor_line_index = 0 THEN 0
                                           ELSE cursor_line_index - 1
                   /\ cursor_match_index' =
                          Len(lines[Get(filtered_lines)[cursor_line_index' + 1]].matches) - 1]_vars

(* The only filtered line has two matches and cursor_match_prev has left   *)
(* the cursor on the last one                                              *)
C15_Witness ==
    /\ last_op = "cursor_match_prev"
    /\ has_filter_results
    /\ Len(Get(filtered_lines)) = 1
    /\ Len(lines[Get(filtered_lines)[1]].matches) = 2
    /\ cursor_line_index = 0
    /\ cursor_match_index = 1

(* C16 as stated: for the lines "foobar", "barfoo", "fbo" and the query    *)
(* "fbo", all three lines are filtered, the match in "fbo" scores 1, the   *)
(* matches in the other two lines score below 1, and the cursor is on the  *)
(* line "fbo".                                                             *)
C16_ExampleAllThreeMatch ==
    (last_op = "apply_filter" /\ filter_string = ExampleQuery) =>
        /\ Get(filtered_lines) = <<1, 2, 3>>
        /\ \A j \in 1..Len(lines[3].matches) : QEq(ScoreAt(3, j), Quot(1, 1))
        /\ \A k \in 1..2 : \A j \in 1..Len(lines[k].matches) : QGt(Quot(1, 1), ScoreAt(k, j))
        /\ CursorInRange
        /\ CursorLine.raw = <<"f", "b", "o">>

(* C16 as amended: for the lines "foobar", "barfoo", "fbo" and the query   *)
(* "fbo", only the line "fbo" is filtered ("foobar" and "barfoo" do not    *)
(* hold f, b, o in this order and have no match), its one match scores 1,  *)
(* and the cursor is on the line "fbo".                                    *)
C16_ExampleOnlyFboMatches ==
    (last_op = "apply_filter" /\ filter_string = ExampleQuery) =>
        /\ Get(filtered_lines) = <<3>>
        /\ lines[1].matches = <<>>
        /\ lines[2].matches = <<>>
        /\ lines[3].matches = << <<1, 2, 3>> >>
        /\ QEq(ScoreAt(3, 1), Quot(1, 1))
        /\ CursorInRange
        /\ CursorLine.raw = <<"f", "b", "o">>
        /\ cursor_value = [exc |-> "none", val |-> <<3, 0>>]

(* The query "fbo" has been applied with the original cursor on "foobar"   *)
C16_Witness ==
    /\ last_op = "apply_filter"
    /\ filter_string = ExampleQuery
    /\ has_filter_results
    /\ lines[1].raw = <<"f", "o", "o", "b", "a", "r">>
    /\ og_cursor_pos[1] = 1

(* C17: while there are filtered lines, draw() returns every line of the   *)
(* document in order and the cursor position (number of the cursor's line, *)
(* first position of the cursor's match minus 1); when the last filter     *)
(* pass left no filtered line, the cursor position draw() returns is the   *)
(* one given at construction.                                              *)
C17_DrawReturnsLinesAndCursor ==
    Has(filtered_lines) =>
        /\ draw_value.exc = "none"
        /\ draw_value.val.lines = [k \in 1..Len(lines) |-> lines[k].raw]
        /\ draw_value.val.cursor_position =
               IF Get(filtered_lines) # <<>>
               THEN <<CursorLine.num, CursorMatch[1] - 1>>
               ELSE og_cursor_pos

(* Number of positions over all matches of the filtered lines fl[j..] *)
RECURSIVE MatchPositions(_, _)
MatchPositions(ms, j) ==
    IF j > Len(ms) THEN 0 ELSE Len(ms[j]) + MatchPositions(ms, j + 1)

RECURSIVE TotalPositions(_, _)
TotalPositions(fl, j) ==
    IF j > Len(fl) THEN 0
    ELSE MatchPositions(lines[fl[j]].matches, 1) + TotalPositions(fl, j + 1)

(* h is a one-character span of some match of a filtered line *)
IsSpanOfAMatch(h) ==
    \E k \in Filtered :
        \E j \in 1..Len(lines[k].matches) :
            \E i \in 1..Len(lines[k].matches[j]) :
                LET position == lines[k].matches[j][i]
                IN  /\ h[2] = lines[k].num - 1
                    /\ h[3] = position - 1
                    /\ h[4] = position

(* C18: after an apply_filter that yields filtered lines, and after any    *)
(* navigation that follows it, there are as many SearchResult highlights   *)
(* as positions in all matches of all filtered lines and as many           *)
(* SearchHighlight highlights as the query has characters; every           *)
(* SearchResult comes before every SearchHighlight; and each highlight is  *)
(* (line number - 1, position - 1, position) of a matched position.        *)
C18_HighlightsAreComplete ==
    has_filter_results =>
        /\ Has(highlights)
        /\ LET hl == Get(highlights)
               results == TotalPositions(Get(filtered_lines), 1)
           IN  /\ Len(hl) = results + Len(filter_string)
               /\ \A n \in 1..Len(hl) :
                      /\ hl[n][1] = IF n <= results THEN "SearchResult" ELSE "SearchHighlight"
                      /\ IsSpanOfAMatch(hl[n])

(* A navigation command has run over two filtered lines and a query of two *)
(* characters, the first line having two matches                           *)
C18_Witness ==
    /\ last_op \in Navigation
    /\ has_filter_results
    /\ Len(Get(filtered_lines)) = 2
    /\ Len(filter_string) = 2
    /\ Len(lines[Get(filtered_lines)[1]].matches) = 2

(* C19: a constructor call whose lines and line numbers differ in length   *)
(* fails, whether the line numbers are fewer or more than the lines.       *)
C19_MismatchedLengthsRejected ==
    (last_op = "__init__" /\ Len(init_args.lin_nums) # Len(init_args.lines)) =>
        last_exc # "none"

(* C20: a navigation command called while there is no filtered line fails  *)
(* and leaves cursor_line_index, cursor_match_index and highlights as they *)
(* were.                                                                   *)
C20_NavigationOnEmptyRefused ==
    [][(/\ last_op' \in Navigation
        /\ ~Has(filtered_lines) \/ Get(filtered_lines) = <<>>) =>
           /\ last_exc' # "none"
           /\ cursor_line_index' = cursor_line_index
           /\ cursor_match_index' = cursor_match_index
           /\ highlights' = highlights]_vars

(* C21: apply_filter called again with the query it was just called with   *)
(* leaves the matches and scores of every line, filtered_lines, both       *)
(* cursor indices, the highlights and the value of get_cursor() as the     *)
(* first call left them.                                                   *)
C21_SameQueryAgainChangesNothing ==
    [][(/\ last_op = "apply_filter"
        /\ last_op' = "apply_filter"
        /\ filter_string' = filter_string) =>
           /\ lines' = lines
           /\ filtered_lines' = filtered_lines
           /\ cursor_line_index' = cursor_line_index
           /\ cursor_match_index' = cursor_match_index
           /\ highlights' = highlights
           /\ cursor_value' = cursor_value]_vars

(* A query of two characters has been applied and the cursor is on the     *)
(* second match of the second of two filtered lines                        *)
C21_Witness ==
    /\ last_op = "apply_filter"
    /\ last_exc = "none"
    /\ Len(filter_string) = 2
    /\ has_filter_results
    /\ Len(Get(filtered_lines)) = 2
    /\ cursor_line_index = 1
    /\ cursor_match_index = 1

Accessors == {"draw", "get_cursor", "get_highlights"}

(* C22: the navigation commands and the read accessors do not filter: they *)
(* leave filter_string, filtered_lines and every line's text, number,      *)
(* matches and scores as they were; a navigation command changes nothing   *)
(* but cursor_line_index, cursor_match_index and highlights, and an        *)
(* accessor changes nothing at all.                                        *)
C22_OnlyApplyFilterFilters ==
    [][/\ last_op' \in Navigation \cup Accessors =>
              UNCHANGED <<filter_string, filtered_lines, lines, has_filter_results,
                          og_cursor_pos, og_top_line, num_lines>>
       /\ last_op' \in Accessors =>
              UNCHANGED <<cursor_line_index, cursor_match_index, highlights>>]_vars

(* draw() has been called after navigation moved the cursor to the second  *)
(* match of the second filtered line                                       *)
C22_Witness ==
    /\ last_op = "draw"
    /\ last_exc = "none"
    /\ has_filter_results
    /\ Len(filter_string) = 1
    /\ cursor_line_index = 1
    /\ cursor_match_index = 1

(* The greedy walk over text for the query q, stated on 1-based positions: *)
(* walk holds the positions of q[1..Len(walk)]; the next position is the   *)
(* first one after the last at which text holds the next character of q.   *)
(* The result is the full walk, or <<>> when some character is not found.  *)
RECURSIVE GreedyWalk(_, _, _)
GreedyWalk(text, q, walk) ==
    IF Len(walk) = Len(q) THEN walk
    ELSE LET later == {p \in (walk[Len(walk)] + 1)..Len(text) : text[p] = q[Len(walk) + 1]}
         IN  IF later = {} THEN <<>>
             ELSE GreedyWalk(text, q, Append(walk, Min(later)))

(* The successful greedy walks, by increasing start *)
RECURSIVE GreedyWalks(_, _, _)
GreedyWalks(text, q, start) ==
    IF start > Len(text) THEN <<>>
    ELSE LET walk == IF text[start] = q[1] THEN GreedyWalk(text, q, <<start>>) ELSE <<>>
         IN  (IF walk = <<>> THEN <<>> ELSE <<walk>>) \o GreedyWalks(text, q, start + 1)

(* C23: for a non-empty query the matches of a line are exactly the        *)
(* successful greedy walks over its lowercased text, one for each start    *)
(* that holds the first query character, by increasing start; in a walk    *)
(* each position is the first one after the previous position that holds   *)
(* the next query character.                                               *)
C23_MatchesAreTheGreedyWalks ==
    (last_op = "apply_filter" /\ filter_string # <<>>) =>
        \A k \in 1..Len(lines) :
            lines[k].matches = GreedyWalks(lines[k].raw_lower, filter_string, 1)

(* Operators of C24: n calls of cursor_match_next from the cursor c; the   *)
(* (line index, match index) pairs of all matches of all filtered lines,   *)
(* in document order                                                       *)
RECURSIVE MatchNextTimes(_, _)
MatchNextTimes(n, c) ==
    IF n = 0 THEN c
    ELSE MatchNextTimes(n - 1, match_next(c.line_index, c.match_index, c.hl))

AllMatchesInOrder ==
    Flatten([j \in 1..Len(Get(filtered_lines)) |->
                [m \in 1..Len(lines[Get(filtered_lines)[j]].matches) |-> <<j - 1, m - 1>>]])

(* C24: over a non-empty filtered set, cursor_match_next repeated from     *)
(* (0, 0) is on the matches of the filtered lines one after the other in   *)
(* document order, skipping none, and once on the last filtered line stays *)
(* on it; and from any cursor but the last match of the last filtered      *)
(* line, cursor_match_next then cursor_match_prev lead back to the same    *)
(* two indices.                                                            *)
C24_MatchNextVisitsAllInOrder ==
    (has_filter_results /\ CursorInRange) =>
        LET all == AllMatchesInOrder
            first == Cur(0, 0, highlights, "none")
            At_(n) == MatchNextTimes(n, first)
            next == match_next(cursor_line_index, cursor_match_index, highlights)
            back == match_prev(next.line_index, next.match_index, next.hl)
        IN  /\ \A n \in 0..(Len(all) - 1) :
                   /\ At_(n).exc = "none"
                   /\ <<At_(n).line_index, At_(n).match_index>> = all[n + 1]
            /\ \A n \in Len(all)..(2 * Len(all)) :
                   /\ At_(n).exc = "none"
                   /\ At_(n).line_index = Len(Get(filtered_lines)) - 1
            /\ ~(OnLastMatch /\ OnLastLine) =>
                   /\ next.exc = "none" /\ back.exc = "none"
                   /\ back.line_index = cursor_line_index
                   /\ back.match_index = cursor_match_index

(* cursor_match_next has reached the last match of the last of two         *)
(* filtered lines, each of two matches                                     *)
C24_Witness ==
    /\ last_op = "cursor_match_next"
    /\ has_filter_results
    /\ Len(Get(filtered_lines)) = 2
    /\ Len(lines[Get(filtered_lines)[1]].matches) = 2
    /\ Len(lines[Get(filtered_lines)[2]].matches) = 2
    /\ cursor_line_index = 1
    /\ cursor_match_index = 1

====
